---- MODULE Spec2Model ----
(***************************************************************************)
(* X402 payment path of AABC-Labs:                                         *)
(*   - the gateway's POST /agent/fetch-x402 handler (gateway/src/index.ts) *)
(*   - the wallet route POST /submit-signed-transaction (README.md:528)    *)
(*   - the two local on-chain verifiers and the verifyPayment fallback     *)
(*     policy (gateway/src/index.ts, solana-bridge/routes/solana.js)       *)
(* Each await of a handler is a point where the environment (upstream      *)
(* resource, facilitator, Solana RPC) answers; the answers are drawn       *)
(* nondeterministically.                                                   *)
(***************************************************************************)
EXTENDS Integers, Sequences, FiniteSets, TLC

\* ------------------------------------------------------------------ bounds
\* Largest maxAmountRequired a 402 body carries (atomic units).
MaxAmount == 2
\* Largest token balance of an account in a transaction's balance tables.
MaxBal == 2

\* ------------------------------------------------------- program constants
\* process.env.USDC_MINT and process.env.X402_TREASURY of the gateway, the
\* agent's key, and NEXT_PUBLIC_USDC_MINT / NEXT_PUBLIC_X402_TREASURY of the
\* shared verifier.
USDC == "USDC"
TREASURY == "TREASURY"
agent == "AGENT"
USDC_MINT == "USDC"
TOKEN_PROGRAM_ID == "TokenProgram"
ASSOCIATED_TOKEN_PROGRAM_ID == "AtaProgram"
\* Discriminator of TransferChecked in the SPL token program.
TransferCheckedTag == 12
\* Number of account keys of a TransferChecked instruction.
TransferCheckedKeys == 4

\* ------------------------------------------------------------- value sets
VerifyModes == {"facilitator-first", "local-first", "local-only", "facilitator-only"}
PayloadModes == {"transaction", "message", "transaction+signature",
                 "message+header-signature", "unknown-mode"}
Schemes == {"exact", "upfront-discount"}
Networks == {"solana", "base"}
Assets == {USDC, "OTHERMINT"}
Payees == {TREASURY, "MERCHANT"}
ContentTypes == {"application/json", "text/plain"}
\* Content type of a response on which the handler set none (Express default).
UnsetContentType == "unset"
NonPaymentStatuses == {200, 404}

\* One entry of accepts[] in a 402 body. maxAmountRequired is the integer its
\* decimal string denotes.
Requirements ==
    [scheme : Schemes, network : Networks, asset : Assets,
     maxAmountRequired : 0..MaxAmount, payTo : Payees]

NoAccept ==
    [scheme |-> "none", network |-> "none", asset |-> "none",
     maxAmountRequired |-> -1, payTo |-> "none"]

\* An upstream HTTP response: status, body, content-type header,
\* x-payment-response header ("none" when absent), and for a 402 the parsed
\* body ("malformed", "noAccepts" or "accepts") with accepts[0].
NoResponse ==
    [status |-> 0, body |-> "none", contentType |-> "none", xpr |-> "none",
     json |-> "none", accept |-> NoAccept]

UpstreamPlain ==
    [status : NonPaymentStatuses, body : {"resource"}, contentType : ContentTypes,
     xpr : {"none"}, json : {"none"}, accept : {NoAccept}]

Upstream402 ==
    [status : {402}, body : {"payment-required"}, contentType : {"application/json"},
     xpr : {"none"}, json : {"malformed", "noAccepts"}, accept : {NoAccept}]
    \cup
    [status : {402}, body : {"payment-required"}, contentType : {"application/json"},
     xpr : {"none"}, json : {"accepts"}, accept : Requirements]

UpstreamReplay ==
    [status : {200, 402, 500}, body : {"resource"}, contentType : {"application/json", "none"},
     xpr : {"none", "settled"}, json : {"none"}, accept : {NoAccept}]

\* What the gateway answers: res.status(..), the body or the error text,
\* the content-type and x-payment-response headers it set.
NoReply == [status |-> 0, body |-> "none", error |-> "none",
            contentType |-> "none", xpr |-> "none", signature |-> "none"]

Reply(status, body, error, contentType, xpr, signature) ==
    [status |-> status, body |-> body, error |-> error,
     contentType |-> contentType, xpr |-> xpr, signature |-> signature]

ErrorReply(status, error) ==
    Reply(status, "none", error, "application/json", "none", "none")

\* What the caller posts: { url, method = 'GET', headers = {}, body }. Headers
\* are the set of names given.
CallerRequests ==
    { [url |-> "resource-url", method |-> "GET", headers |-> {}, body |-> "none"],
      [url |-> "resource-url", method |-> "POST", headers |-> {"authorization"},
       body |-> "payload"] }

\* JSON.stringify(body)
JsonStringify(body) == << "json", body >>

\* fetch(url, { method, headers, body: body ? JSON.stringify(body) : undefined })
\* with the extra headers the call site adds.
FetchRequest(req, extraHeaders) ==
    [url |-> req.url, method |-> req.method,
     headers |-> req.headers \cup extraHeaders,
     body |-> IF req.body # "none" THEN JsonStringify(req.body) ELSE << "undefined" >>]

\* ------------------------------------------------------------ transactions
NoTx == [instructions |-> << >>, feePayer |-> "none", recentBlockhash |-> 0,
         signed |-> FALSE]

\* tx.serialize(): the wire bytes, the message and the signatures over it.
NoBytes == << >>
serializeMessage(t) ==
    << "message", t.instructions, t.feePayer, t.recentBlockhash >>
serialize(t) ==
    << "wire", serializeMessage(t), IF t.signed THEN << t.feePayer >> ELSE << >> >>

\* Buffer.toString('base64')
Base64(bytes) == << "base64", bytes >>

\* The payload object for each X402_PAYLOAD_MODE ("none": key absent).
NoPayload == [transaction |-> << >>, message |-> << >>, signature |-> "none"]
BuildPayload(mode, t) ==
    CASE mode = "transaction" ->
           [NoPayload EXCEPT !.transaction = Base64(serialize(t))]
      [] mode = "message" ->
           [NoPayload EXCEPT !.message = Base64(serializeMessage(t))]
      [] mode = "transaction+signature" ->
           [NoPayload EXCEPT !.transaction = Base64(serialize(t)), !.signature = "sig"]
      [] OTHER ->
           [NoPayload EXCEPT !.message = Base64(serializeMessage(t))]

\* Variant: the fallback serializes the transaction again on a newer blockhash.
LocalBroadcastBytes_Reserialized(raw, t) ==
    serialize([t EXCEPT !.recentBlockhash = @ + 1])

\* conn.sendRawTransaction(rawTx, ...): the bytes serialized after signing.
LocalBroadcastBytes(raw, t) == raw

\* Variant: the payment reuses the blockhash fetched for the account creation.
LatestBlockhashId_Reused(c) == IF c.blockhash > 0 THEN c.blockhash ELSE 1

\* await conn.getLatestBlockhash('finalized'): each fetch returns a blockhash of
\* its own, numbered by the fetches made.
LatestBlockhashId(c) == c.blockhash + 1

\* createTransferCheckedInstruction(source, mint, destination, owner, amount, decimals):
\* destOwner is the owner the destination ATA was derived from.
createTransferCheckedInstruction(mint, destOwner, owner, amount) ==
    [programId |-> TOKEN_PROGRAM_ID, tag |-> TransferCheckedTag,
     keys |-> TransferCheckedKeys, mint |-> mint, destOwner |-> destOwner,
     owner |-> owner, amount |-> amount]

\* createAssociatedTokenAccountInstruction(payer, ata, owner, mint)
createAssociatedTokenAccountInstruction(payer, owner, mint) ==
    [programId |-> ASSOCIATED_TOKEN_PROGRAM_ID, tag |-> 0,
     keys |-> 6, mint |-> mint, destOwner |-> owner,
     owner |-> payer, amount |-> 0]

\* --------------------------------------------------- token balance tables
\* One entry of meta.preTokenBalances / meta.postTokenBalances; amount is
\* uiTokenAmount.amount (atomic units).
Entry(i, mint, owner, amount) ==
    [accountIndex |-> i, mint |-> mint, owner |-> owner, amount |-> amount]

\* Array.prototype.find: index of the first element satisfying P, 0 if none.
FindIndex(seq, P(_)) ==
    IF \E i \in 1..Len(seq) : P(seq[i])
    THEN CHOOSE i \in 1..Len(seq) : P(seq[i]) /\ \A j \in 1..(i - 1) : ~P(seq[j])
    ELSE 0

\* Balance tables a confirmed single-instruction transfer leaves behind: the
\* owner's account is debited and the destination owner's account credited.
MetaOf(ix) ==
    [preTokenBalances |-> << Entry(1, ix.mint, ix.owner, ix.amount),
                             Entry(2, ix.mint, ix.destOwner, 0) >>,
     postTokenBalances |-> << Entry(1, ix.mint, ix.owner, 0),
                              Entry(2, ix.mint, ix.destOwner, ix.amount) >>]

NoMeta == [preTokenBalances |-> << >>, postTokenBalances |-> << >>]

\* What the RPC node answers about a signature:
\*   status: "throw" (the call rejects), "null" (status.value is null),
\*           "processed", "confirmed", "finalized" (confirmationStatus)
\*   err:    status.value.err / meta.err is set
\*   parsed: "throw", "null" (no transaction or no meta), "meta"
RpcView(status, err, parsed, meta) ==
    [status |-> status, err |-> err, parsed |-> parsed, meta |-> meta]

\* ----------------------------------------------- gateway: local verifier
\* b.mint === usdcMint && b.owner === treasuryOwner
TreasuryMatch(b, accept) == b.mint = accept.asset /\ b.owner = accept.payTo

\* delta < BigInt(expectedAmount) is refused.
AmountSufficient(delta, expectedAmount) == ~(delta < expectedAmount)

\* Variant: a transaction that is only processed counts as confirmed.
NotConfirmedYet_AcceptsProcessed(confirmationStatus) ==
    confirmationStatus \notin {"processed", "confirmed", "finalized"}

\* confirmationStatus !== 'confirmed' && confirmationStatus !== 'finalized'
NotConfirmedYet(confirmationStatus) ==
    confirmationStatus # "confirmed" /\ confirmationStatus # "finalized"

\* localVerifyOnChain(signature, accept) of the gateway; rpc is what
\* getSignatureStatus and getParsedTransaction answer for the signature.
localVerifyOnChain(rpc, accept) ==
    IF rpc.status = "throw" THEN FALSE
    ELSE IF rpc.status = "null" THEN FALSE
    ELSE IF rpc.err THEN FALSE
    ELSE IF NotConfirmedYet(rpc.status) THEN FALSE
    ELSE IF rpc.parsed = "throw" THEN FALSE
    ELSE IF rpc.parsed = "null" THEN FALSE
    ELSE
      LET usdcMint == accept.asset
          expectedAmount == accept.maxAmountRequired
          treasuryOwner == accept.payTo
          preBalances == rpc.meta.preTokenBalances
          postBalances == rpc.meta.postTokenBalances
          Match(b) == TreasuryMatch(b, accept)
          treasuryPost == FindIndex(postBalances, Match)
          treasuryPre == FindIndex(preBalances, Match)
      IN IF treasuryPost = 0 THEN FALSE
         ELSE LET preAmount == IF treasuryPre # 0 THEN preBalances[treasuryPre].amount ELSE 0
                  postAmount == postBalances[treasuryPost].amount
                  delta == postAmount - preAmount
              IN AmountSufficient(delta, expectedAmount)

\* assertSingleTransferChecked(tx): TRUE when it returns, FALSE when it throws.
assertSingleTransferChecked(tx) ==
    LET ixs == tx.instructions
    IN IF Len(ixs) # 1 THEN FALSE
       ELSE IF ixs[1].programId # TOKEN_PROGRAM_ID THEN FALSE
       ELSE IF ixs[1].tag # TransferCheckedTag THEN FALSE
       ELSE IF ixs[1].keys # TransferCheckedKeys THEN FALSE
       ELSE TRUE

\* Variant: the account creation bundled into the payment transaction.
PaymentInstructions_WithCreate(priceAtomic) ==
    << createAssociatedTokenAccountInstruction(agent, TREASURY, USDC),
       createTransferCheckedInstruction(USDC, TREASURY, agent, priceAtomic) >>

\* The payment transaction of step 3: one transferChecked from the agent's
\* USDC account to the treasury's, for priceAtomic.
PaymentInstructions(priceAtomic) ==
    << createTransferCheckedInstruction(USDC, TREASURY, agent, priceAtomic) >>

\* createX402Payment(resourceUrl, maxAmountRequired, assetMint) of the bridge:
\* the instructions of the transaction it signs. The treasury comes from the
\* environment (extractTreasuryFromUrl), the network from process.env.NETWORK.
BridgeNetworks == {"solana-mainnet", "solana-devnet"}
BridgeInstructions(network, maxAmountRequired, assetMint) ==
    IF network = "solana-mainnet"
    THEN << createTransferCheckedInstruction(assetMint, TREASURY, agent, maxAmountRequired) >>
    ELSE << [programId |-> "SystemProgram", tag |-> 2, keys |-> 2, mint |-> "SOL",
             destOwner |-> TREASURY, owner |-> agent, amount |-> maxAmountRequired] >>

\* const priceAtomic = Number(accept.maxAmountRequired ?? '0')
PriceAtomic(accept) == accept.maxAmountRequired

\* =========================================================================
\* Gateway: POST /agent/fetch-x402
\* =========================================================================
VARIABLES
    VERIFY_MODE,         \* process.env.X402_VERIFY_MODE
    PAYLOAD_MODE,        \* process.env.X402_PAYLOAD_MODE
    gpc,                 \* the handler's position
    r1,                  \* the initial upstream response
    accept,              \* reqs.accepts[0]
    tx,                  \* the payment transaction
    ata,                 \* the treasury's token account: "unknown", "exists",
                         \* "created", "missing"
    landed,              \* the payment transaction on chain: "no", "ok", "err"
    verificationPassed,
    verificationMethod,
    txSignature,
    facVerifyAnswer,     \* what POST /verify answered ("none" before the call)
    facSettleAnswer,     \* what POST /settle answered ("none" before the call)
    request,             \* req.body of the call
    fetches,             \* the upstream requests issued, in order
    broadcastSig,        \* the signature sendRawTransaction returned ("none" before)
    r2,                  \* the upstream response to the replay
    rawTx,               \* tx.serialize() of the signed transaction
    payload,             \* the payload object of the payment header
    sentRaw,             \* the bytes the gateway handed to sendRawTransaction
    calls,               \* how often each external capability was used
    reply                \* what was answered to the caller

gvars == << VERIFY_MODE, PAYLOAD_MODE, gpc, r1, accept, tx, ata, landed,
            verificationPassed, verificationMethod, txSignature,
            facVerifyAnswer, facSettleAnswer, request, fetches, broadcastSig,
            r2, rawTx, payload, sentRaw, calls, reply >>

NoCalls ==
    [fetch |-> 0, rpc |-> 0, blockhash |-> 0, built |-> 0, signs |-> 0,
     ataSends |-> 0, facVerify |-> 0, facSettle |-> 0, paySends |-> 0,
     localVerify |-> 0, replays |-> 0]

Bump(c, f) == [c EXCEPT ![f] = @ + 1]

GInit ==
    /\ VERIFY_MODE \in VerifyModes
    /\ PAYLOAD_MODE \in PayloadModes
    /\ gpc = "start"
    /\ r1 = NoResponse
    /\ accept = NoAccept
    /\ tx = NoTx
    /\ ata = "unknown"
    /\ landed = "no"
    /\ verificationPassed = FALSE
    /\ verificationMethod = "none"
    /\ txSignature = "none"
    /\ facVerifyAnswer = "none"
    /\ facSettleAnswer = "none"
    /\ request \in CallerRequests
    /\ fetches = << >>
    /\ broadcastSig = "none"
    /\ r2 = NoResponse
    /\ rawTx = NoBytes
    /\ payload = NoPayload
    /\ sentRaw = NoBytes
    /\ calls = NoCalls
    /\ reply = NoReply

\* Variant: the outer catch logs the error and sends nothing.
GatewayError_Silent(c) ==
    /\ reply' = reply
    /\ calls' = c
    /\ gpc' = "done"

\* The outer catch: res.status(500).json({error: 'gateway error', ...}).
GatewayError(c) ==
    /\ reply' = ErrorReply(500, "gateway error")
    /\ calls' = c
    /\ gpc' = "done"

\* return res.status(r1.status).send(data): status and body of the upstream
\* response; no header of it is copied.
PassThrough(r) ==
    Reply(r.status, r.body, "none", UnsetContentType, "none", "none")

\* Step 1: the initial request, and the pass-through of a non-402.
InitialRequest ==
    /\ gpc = "start"
    /\ fetches' = Append(fetches, FetchRequest(request, {}))
    /\ \/ /\ GatewayError(Bump(calls, "fetch"))          \* fetch rejects
          /\ UNCHANGED << r1 >>
       \/ \E r \in UpstreamPlain \cup Upstream402 :
            /\ r1' = r
            /\ calls' = Bump(calls, "fetch")
            /\ IF r.status # 402
               THEN reply' = PassThrough(r) /\ gpc' = "done"
               ELSE reply' = reply /\ gpc' = "parse"
    /\ UNCHANGED << facVerifyAnswer, facSettleAnswer, request, broadcastSig,
                    r2, rawTx, payload, sentRaw >>
    /\ UNCHANGED << VERIFY_MODE, PAYLOAD_MODE, accept, tx, ata, landed,
                    verificationPassed, verificationMethod, txSignature >>

\* Step 2: parse the 402 body; only a body without accepts[0] is refused.
Parse402 ==
    /\ gpc = "parse"
    /\ \/ /\ r1.json = "malformed"                         \* r1.json() rejects
          /\ GatewayError(calls)
          /\ UNCHANGED accept
       \/ /\ r1.json = "noAccepts"
          /\ reply' = ErrorReply(500, "No payment requirements in 402 response")
          /\ gpc' = "done"
          /\ UNCHANGED << accept, calls >>
       \/ /\ r1.json = "accepts"
          /\ accept' = r1.accept
          /\ gpc' = "checkAta"
          /\ UNCHANGED << reply, calls >>
    /\ UNCHANGED << facVerifyAnswer, facSettleAnswer, request, fetches, broadcastSig,
                    r2, rawTx, payload, sentRaw >>
    /\ UNCHANGED << VERIFY_MODE, PAYLOAD_MODE, r1, tx, ata, landed,
                    verificationPassed, verificationMethod, txSignature >>

\* getAccount(conn, destAta): when the treasury's token account is missing it
\* is created by a transaction of its own, sent and confirmed before the
\* payment transaction is built. The confirmation's value.err is not read.
CheckAta ==
    /\ gpc = "checkAta"
    /\ \/ /\ calls' = Bump(calls, "rpc")                   \* ataExists = true
          /\ ata' = "exists"
          /\ gpc' = "build"
          /\ UNCHANGED reply
       \/ \E outcome \in {"blockhashThrows", "sendThrows", "confirmThrows",
                          "confirmedErr", "confirmed"} :
            LET c0 == Bump(Bump(calls, "rpc"), "rpc")
                c1 == Bump(c0, "blockhash")
                c2 == Bump(Bump(c1, "rpc"), "ataSends")
                c3 == Bump(c2, "rpc")
            IN CASE outcome = "blockhashThrows" -> GatewayError(c0) /\ ata' = "missing"
                 [] outcome = "sendThrows" -> GatewayError(c2) /\ ata' = "missing"
                 [] outcome = "confirmThrows" -> GatewayError(c3) /\ ata' = "missing"
                 [] outcome = "confirmedErr" ->
                        calls' = c3 /\ ata' = "missing" /\ gpc' = "build" /\ UNCHANGED reply
                 [] OTHER ->
                        calls' = c3 /\ ata' = "created" /\ gpc' = "build" /\ UNCHANGED reply
    /\ UNCHANGED << facVerifyAnswer, facSettleAnswer, request, fetches, broadcastSig,
                    r2, rawTx, payload, sentRaw >>
    /\ UNCHANGED << VERIFY_MODE, PAYLOAD_MODE, r1, accept, tx, landed,
                    verificationPassed, verificationMethod, txSignature >>

\* Steps 3-6: build the transfer, fetch the blockhash, assert the shape, sign,
\* choose the payload. Facilitator modes verify next, the others go local.
BuildAndSign ==
    /\ gpc = "build"
    /\ LET built == [instructions |-> PaymentInstructions(PriceAtomic(accept)),
                     feePayer |-> agent,
                     recentBlockhash |-> LatestBlockhashId(calls),
                     signed |-> FALSE]
           c1 == Bump(Bump(Bump(calls, "built"), "rpc"), "blockhash")
       IN \/ /\ GatewayError(Bump(calls, "rpc"))           \* getLatestBlockhash rejects
             /\ UNCHANGED << tx, txSignature, rawTx, payload >>
          \/ /\ ~assertSingleTransferChecked(built)
             /\ tx' = built
             /\ GatewayError(c1)
             /\ UNCHANGED << txSignature, rawTx, payload >>
          \/ /\ assertSingleTransferChecked(built)
             /\ tx' = [built EXCEPT !.signed = TRUE]
             /\ rawTx' = serialize([built EXCEPT !.signed = TRUE])
             /\ IF PAYLOAD_MODE = "unknown-mode"
                THEN GatewayError(Bump(c1, "signs")) /\ UNCHANGED << txSignature, payload >>
                ELSE /\ calls' = Bump(c1, "signs")
                     /\ payload' = BuildPayload(PAYLOAD_MODE, [built EXCEPT !.signed = TRUE])
                     /\ txSignature' = "sig"
                     /\ gpc' = IF VERIFY_MODE \in {"facilitator-only", "facilitator-first"}
                               THEN "facVerify" ELSE "local"
                     /\ UNCHANGED reply
    /\ UNCHANGED << facVerifyAnswer, facSettleAnswer, request, fetches, broadcastSig,
                    r2, sentRaw >>
    /\ UNCHANGED << VERIFY_MODE, PAYLOAD_MODE, r1, accept, ata, landed,
                    verificationPassed, verificationMethod >>

\* Variant: every mode stops when the facilitator did not verify and settle.
AfterFacilitatorFailure_NoFallback ==
    /\ reply' = ErrorReply(502, "Facilitator verification failed in facilitator-only mode")
    /\ gpc' = "done"

\* Variant: a failed facilitator is taken for a verified payment.
AfterFacilitatorFailure_Replay ==
    /\ reply' = reply
    /\ gpc' = "replay"

\* Variant: the fallback inspects the chain without broadcasting first.
AfterFacilitatorFailure_SkipBroadcast ==
    IF VERIFY_MODE = "facilitator-only"
    THEN /\ reply' = ErrorReply(502, "Facilitator verification failed in facilitator-only mode")
         /\ gpc' = "done"
    ELSE /\ reply' = reply
         /\ gpc' = "localVerify"

\* Variant: every mode, facilitator-only included, goes on to the local strategy.
AfterFacilitatorFailure_AlwaysLocal ==
    /\ reply' = reply
    /\ gpc' = "local"

\* After the facilitator block: facilitator-only stops with 502, the other
\* modes go on to the local strategy.
AfterFacilitatorFailure ==
    IF VERIFY_MODE = "facilitator-only"
    THEN /\ reply' = ErrorReply(502, "Facilitator verification failed in facilitator-only mode")
         /\ gpc' = "done"
    ELSE /\ reply' = reply
         /\ gpc' = "local"

\* Variant: any 2xx answer of /verify is taken for a valid one.
VerifyAccepted_AnyParsed(outcome) == outcome \in {"valid", "invalid"}

\* vf.ok && verifyResult.isValid
VerifyAccepted(outcome) == outcome = "valid"

\* Step 7, strategy 1: POST {FACILITATOR}/verify. Every outcome but a 2xx
\* answer with isValid leaves verificationPassed false.
FacilitatorVerify ==
    /\ gpc = "facVerify"
    /\ calls' = Bump(calls, "facVerify")
    /\ \E outcome \in {"throws", "non2xx", "malformed", "invalid", "valid"} :
         /\ facVerifyAnswer' = outcome
         /\ IF VerifyAccepted(outcome)
            THEN gpc' = "facSettle" /\ UNCHANGED reply
            ELSE AfterFacilitatorFailure
    /\ UNCHANGED << facSettleAnswer, request, fetches, broadcastSig,
                    r2, rawTx, payload, sentRaw >>
    /\ UNCHANGED << VERIFY_MODE, PAYLOAD_MODE, r1, accept, tx, ata, landed,
                    verificationPassed, verificationMethod, txSignature >>

\* Step 8: POST {FACILITATOR}/settle, which broadcasts the transaction. A
\* settle call that fails towards the gateway may still have broadcast it.
FacilitatorSettle ==
    /\ gpc = "facSettle"
    /\ calls' = Bump(calls, "facSettle")
    /\ UNCHANGED << facVerifyAnswer, request, fetches, broadcastSig,
                    r2, rawTx, payload, sentRaw >>
    /\ \/ /\ landed' = "ok"                                \* settlement.success
          /\ facSettleAnswer' = "success"
          /\ txSignature' = "sig"
          /\ verificationPassed' = TRUE
          /\ verificationMethod' = "facilitator"
          /\ gpc' = "replay"
          /\ UNCHANGED reply
       \/ \E outcome \in {"throws", "non2xx", "malformed", "notSuccess"},
             l \in {"no", "ok", "err"} :
            /\ landed' = l
            /\ facSettleAnswer' = outcome
            /\ AfterFacilitatorFailure
            /\ UNCHANGED << txSignature, verificationPassed, verificationMethod >>
    /\ UNCHANGED << VERIFY_MODE, PAYLOAD_MODE, r1, accept, tx, ata >>

\* Strategy 2, first await: conn.sendRawTransaction(rawTx) with preflight. A
\* transaction that is already on chain is refused by the node.
LocalBroadcast ==
    /\ gpc = "local"
    /\ calls' = Bump(Bump(calls, "rpc"), "paySends")
    /\ sentRaw' = LocalBroadcastBytes(rawTx, tx)
    /\ \/ \E l \in {"no", "ok", "err"} :                   \* the call rejects
            /\ landed' = (IF landed = "no" THEN l ELSE landed)
            /\ reply' = ErrorReply(502, "Local verification error")
            /\ gpc' = "done"
            /\ UNCHANGED broadcastSig
       \/ /\ landed = "no"
          /\ gpc' = "localConfirm"
          /\ broadcastSig' = "sig"
          /\ UNCHANGED << reply, landed >>
    /\ UNCHANGED << facVerifyAnswer, facSettleAnswer, request, fetches,
                    r2, rawTx, payload >>
    /\ UNCHANGED << VERIFY_MODE, PAYLOAD_MODE, r1, accept, tx, ata,
                    verificationPassed, verificationMethod, txSignature >>

\* Strategy 2, second await: conn.confirmTransaction(broadcastSig, 'confirmed').
LocalConfirm ==
    /\ gpc = "localConfirm"
    /\ calls' = Bump(calls, "rpc")
    /\ \/ \E l \in {"no", "ok", "err"} :                   \* the call rejects
            /\ landed' = l
            /\ reply' = ErrorReply(502, "Local verification error")
            /\ gpc' = "done"
       \/ /\ landed' = "err"                               \* confirmation.value.err
          /\ reply' = ErrorReply(502, "Transaction failed on-chain")
          /\ gpc' = "done"
       \/ /\ landed' = "ok"
          /\ gpc' = "localVerify"
          /\ UNCHANGED reply
    /\ UNCHANGED << facVerifyAnswer, facSettleAnswer, request, fetches, broadcastSig,
                    r2, rawTx, payload, sentRaw >>
    /\ UNCHANGED << VERIFY_MODE, PAYLOAD_MODE, r1, accept, tx, ata,
                    verificationPassed, verificationMethod, txSignature >>

\* Strategy 2, third await: localVerifyOnChain(broadcastSig, accept) on the
\* confirmed transaction.
LocalVerify ==
    /\ gpc = "localVerify"
    /\ \E status \in {"throw", "null", "processed", "confirmed", "finalized"},
          parsed \in {"throw", "null", "meta"} :
         LET rpc == RpcView(status, FALSE, parsed, MetaOf(tx.instructions[1]))
             isValid == localVerifyOnChain(rpc, accept)
         IN /\ calls' = Bump(Bump(calls, "rpc"), "localVerify")
            /\ IF isValid
               THEN /\ verificationPassed' = TRUE
                    /\ verificationMethod' = "local-chain"
                    /\ gpc' = "replay"
                    /\ UNCHANGED reply
               ELSE /\ reply' = ErrorReply(502, "Local chain verification failed")
                    /\ gpc' = "done"
                    /\ UNCHANGED << verificationPassed, verificationMethod >>
    /\ UNCHANGED << facVerifyAnswer, facSettleAnswer, request, fetches, broadcastSig,
                    r2, rawTx, payload, sentRaw >>
    /\ UNCHANGED << VERIFY_MODE, PAYLOAD_MODE, r1, accept, tx, ata, landed, txSignature >>

\* Variant: an upstream error after payment is answered as a gateway failure.
ReplayReply_MaskError(r, sig) ==
    IF r.status >= 400
    THEN ErrorReply(502, "Upstream failed after payment")
    ELSE Reply(r.status, r.body, "none",
               IF r.contentType # "none" THEN r.contentType ELSE UnsetContentType,
               r.xpr, IF r.xpr # "none" THEN sig ELSE "none")

\* Step 11: res.status(r2.status), content-type and x-payment-response when
\* present, x-payment-signature with the latter, res.send(text).
ReplayReply(r, sig) ==
    Reply(r.status, r.body, "none",
          IF r.contentType # "none" THEN r.contentType ELSE UnsetContentType,
          r.xpr, IF r.xpr # "none" THEN sig ELSE "none")

\* Steps 9-11: replay with X-PAYMENT and pass the upstream answer on: status,
\* body, content-type when present, x-payment-response when present.
Replay ==
    /\ gpc = "replay"
    /\ fetches' = Append(fetches, FetchRequest(request, {"X-PAYMENT"}))
    /\ \/ GatewayError(Bump(calls, "replays")) /\ UNCHANGED r2   \* fetch rejects
       \/ \E r \in UpstreamReplay :
            /\ r2' = r
            /\ reply' = ReplayReply(r, txSignature)
            /\ calls' = Bump(calls, "replays")
            /\ gpc' = "done"
    /\ UNCHANGED << facVerifyAnswer, facSettleAnswer, request, broadcastSig,
                    rawTx, payload, sentRaw >>
    /\ UNCHANGED << VERIFY_MODE, PAYLOAD_MODE, r1, accept, tx, ata, landed,
                    verificationPassed, verificationMethod, txSignature >>

GNext ==
    \/ InitialRequest
    \/ Parse402
    \/ CheckAta
    \/ BuildAndSign
    \/ FacilitatorVerify
    \/ FacilitatorSettle
    \/ LocalBroadcast
    \/ LocalConfirm
    \/ LocalVerify
    \/ Replay

\* =========================================================================
\* Wallet route: POST /submit-signed-transaction
\* =========================================================================
\* Largest block height of the model (bound).
MaxHeight == 2

VARIABLES
    spc,                 \* the route's position
    signedTransaction,   \* req.body.signedTransaction: kind "missing", "malformed"
                         \* or "tx", with the transaction's lastValidBlockHeight
                         \* (0 standing for undefined)
    signature,           \* the hoisted let signature ("undefined" until sent)
    chainTx,             \* the submitted transaction on chain
    errorMsg,            \* error.message of the error in flight: "none",
                         \* "expiry" (names blockhash / expired / block height
                         \* exceeded) or "other"
    confirmError,        \* the inner catch's confirmError.message: "none",
                         \* "expiry" or "other"
    sawOnChain,          \* confirmationStatus values the status look-ups returned
    scalls,              \* sends and status look-ups made
    sreply               \* what was answered

svars == << spc, signedTransaction, signature, chainTx, errorMsg, confirmError,
            sawOnChain, scalls, sreply >>

NotOnChain == [confirmationStatus |-> "none", err |-> FALSE]
ConfirmationStatuses == {"processed", "confirmed", "finalized"}

NoSReply == [status |-> 0, success |-> FALSE, error |-> "none",
             signature |-> "none", reconciled |-> FALSE, confirmation |-> NotOnChain]

SReplyError(status, error) ==
    [status |-> status, success |-> FALSE, error |-> error,
     signature |-> "none", reconciled |-> FALSE, confirmation |-> NotOnChain]

SReplySuccess(sig, value, reconciled) ==
    [status |-> 200, success |-> TRUE, error |-> "none",
     signature |-> sig, reconciled |-> reconciled, confirmation |-> value]

ErrorKinds == {"expiry", "other"}

SInit ==
    /\ spc = "start"
    /\ signedTransaction \in
          [kind : {"missing", "malformed"}, lastValidBlockHeight : {0}]
          \cup [kind : {"tx"}, lastValidBlockHeight : 0..MaxHeight]
    /\ signature = "undefined"
    /\ chainTx = NotOnChain
    /\ errorMsg = "none"
    /\ confirmError = "none"
    /\ sawOnChain = {}
    /\ scalls = [sends |-> 0, lookups |-> 0]
    /\ sreply = NoSReply

\* The chain processes a broadcast transaction on its own schedule; whether it
\* executed with an error is fixed when it is first processed.
ChainAdvance ==
    /\ spc \in {"confirm", "innerCheck", "catch"}
    /\ signature # "undefined"
    /\ \/ /\ chainTx.confirmationStatus = "none"
          /\ \E e \in BOOLEAN : chainTx' = [confirmationStatus |-> "processed", err |-> e]
       \/ /\ chainTx.confirmationStatus = "processed"
          /\ chainTx' = [chainTx EXCEPT !.confirmationStatus = "confirmed"]
       \/ /\ chainTx.confirmationStatus = "confirmed"
          /\ chainTx' = [chainTx EXCEPT !.confirmationStatus = "finalized"]
    /\ UNCHANGED << spc, signedTransaction, signature, errorMsg, confirmError,
                    sawOnChain, scalls, sreply >>

\* Parameter check, Transaction.from, and the block-height check.
SubmitStart ==
    /\ spc = "start"
    /\ \/ /\ signedTransaction.kind = "missing"
          /\ sreply' = SReplyError(400, "Missing required parameter: signedTransaction")
          /\ spc' = "done"
          /\ UNCHANGED errorMsg
       \/ /\ signedTransaction.kind = "malformed"           \* Transaction.from throws
          /\ errorMsg' = "other"
          /\ spc' = "catch"
          /\ UNCHANGED sreply
       \/ /\ signedTransaction.kind = "tx"
          /\ \/ \E k \in ErrorKinds :                       \* getBlockHeight rejects
                  errorMsg' = k /\ spc' = "catch" /\ UNCHANGED sreply
             \/ \E currentBlockHeight \in 1..MaxHeight :
                  IF /\ signedTransaction.lastValidBlockHeight # 0
                     /\ currentBlockHeight > signedTransaction.lastValidBlockHeight
                  THEN /\ sreply' = SReplyError(400, "TRANSACTION_EXPIRED")
                       /\ spc' = "done"
                       /\ UNCHANGED errorMsg
                  ELSE /\ spc' = "send"
                       /\ UNCHANGED << sreply, errorMsg >>
    /\ UNCHANGED << signedTransaction, signature, chainTx, confirmError, sawOnChain,
                    scalls >>

\* signature = await connection.sendRawTransaction(...)
SubmitSend ==
    /\ spc = "send"
    /\ scalls' = [scalls EXCEPT !.sends = @ + 1]
    /\ \/ \E k \in ErrorKinds :
            errorMsg' = k /\ spc' = "catch" /\ UNCHANGED signature
       \/ /\ signature' = "sig"
          /\ spc' = "confirm"
          /\ UNCHANGED errorMsg
    /\ UNCHANGED << signedTransaction, chainTx, confirmError, sawOnChain, sreply >>

\* confirmTransaction(signature, 'processed') inside the inner try: a value
\* with err is thrown as 'Transaction failed: ...' into the inner catch.
SubmitConfirm ==
    /\ spc = "confirm"
    /\ \/ \E k \in ErrorKinds :                             \* the call rejects
            /\ errorMsg' = k /\ confirmError' = k
            /\ spc' = "innerCheck" /\ UNCHANGED sreply
       \/ /\ chainTx.confirmationStatus # "none" /\ chainTx.err
          /\ errorMsg' = "other" /\ confirmError' = "other"
          /\ spc' = "innerCheck"
          /\ UNCHANGED sreply
       \/ /\ chainTx.confirmationStatus # "none" /\ ~chainTx.err
          /\ sreply' = SReplySuccess(signature, chainTx, FALSE)
          /\ spc' = "done"
          /\ UNCHANGED << errorMsg, confirmError >>
    /\ UNCHANGED << signedTransaction, signature, chainTx, sawOnChain, scalls >>

\* The inner catch: getSignatureStatus(signature); any confirmationStatus
\* counts as found.
InnerFound(value) == value.confirmationStatus # "none"

SubmitInnerCheck ==
    /\ spc = "innerCheck"
    /\ scalls' = [scalls EXCEPT !.lookups = @ + 1]
    /\ \/ \E k \in ErrorKinds :                             \* the look-up rejects
            errorMsg' = k /\ spc' = "catch" /\ UNCHANGED << sreply, sawOnChain >>
       \/ /\ sawOnChain' = sawOnChain \cup {chainTx.confirmationStatus}
          /\ IF InnerFound(chainTx)
             THEN /\ sreply' = SReplySuccess(signature, chainTx, FALSE)
                  /\ spc' = "done"
                  /\ UNCHANGED errorMsg
             ELSE /\ spc' = "catch"                         \* throw confirmError
                  /\ errorMsg' = confirmError
                  /\ UNCHANGED sreply
    /\ UNCHANGED << signedTransaction, signature, chainTx, confirmError >>

\* Variant: reconciliation that trusts only a finalized transaction.
ReconcileFound_FinalizedOnly(value) ==
    value.confirmationStatus = "finalized"

\* Post-mortem reconciliation: which statuses count as landed.
ReconcileFound(value) ==
    value.confirmationStatus \in {"confirmed", "finalized", "processed"}

\* The answer when reconciliation did not find the transaction.
SubmitFailure ==
    IF errorMsg = "expiry"
    THEN SReplyError(409, "BLOCKHASH_EXPIRED")
    ELSE SReplyError(500, "error")

\* The outer catch: reconcile when a signature exists, then classify.
SubmitCatch ==
    /\ spc = "catch"
    /\ spc' = "done"
    /\ IF signature # "undefined"
       THEN /\ scalls' = [scalls EXCEPT !.lookups = @ + 1]
            /\ \/ /\ sreply' = SubmitFailure                \* the look-up rejects
                  /\ UNCHANGED sawOnChain
               \/ /\ sawOnChain' = sawOnChain \cup {chainTx.confirmationStatus}
                  /\ sreply' = IF ReconcileFound(chainTx)
                               THEN SReplySuccess(signature, chainTx, TRUE)
                               ELSE SubmitFailure
       ELSE /\ sreply' = SubmitFailure
            /\ UNCHANGED << scalls, sawOnChain >>
    /\ UNCHANGED << signedTransaction, signature, chainTx, errorMsg, confirmError >>

SNext ==
    \/ SubmitStart
    \/ SubmitSend
    \/ ChainAdvance
    \/ SubmitConfirm
    \/ SubmitInnerCheck
    \/ SubmitCatch

\* =========================================================================
\* Shared verifier (x402-verify): localVerifyOnChain and verifyPayment
\* =========================================================================
\* The token accounts a verified transaction may touch, by accountIndex.
AccMint == << USDC_MINT, USDC_MINT, USDC_MINT, "OTHERMINT" >>
AccOwner == << "PAYER", TREASURY, "MERCHANT", TREASURY >>
NumAccounts == Len(AccMint)

\* A balance table from per-account amounts, -1 standing for an account the
\* table does not list; entries are in accountIndex order.
Table(am) ==
    SelectSeq([i \in 1..NumAccounts |-> Entry(i, AccMint[i], AccOwner[i], am[i])],
              LAMBDA e : e.amount >= 0)

Present == 0..MaxBal
Optional == -1..MaxBal

\* Per-account pre and post amounts of the transactions verified.
AmountTables ==
    { am \in [1..NumAccounts -> Optional] :
        /\ am[1] \in Present
        /\ am[3] \in Present
        /\ am[4] \in {-1, 0, MaxBal} }

Metas ==
    { [preTokenBalances |-> Table(pre), postTokenBalances |-> Table(post)] :
        pre \in { a \in AmountTables : a[4] \in {-1, 0} },
        post \in { a \in AmountTables : a[4] \in {-1, MaxBal} } }

\* The requirement the server issued the 402 with: its own mint and treasury.
IssuedRequirements ==
    [scheme : {"exact"}, network : {"solana"}, asset : {USDC_MINT},
     maxAmountRequired : 0..MaxAmount, payTo : {TREASURY}]

CompletePayload == [signature |-> "sig", payer |-> "PAYER"]
Payloads == {CompletePayload, [signature |-> "", payer |-> "PAYER"],
             [signature |-> "sig", payer |-> ""]}

SampleMeta == MetaOf(createTransferCheckedInstruction(USDC_MINT, TREASURY, "PAYER", MaxAmount))

\* A confirmed, error-free transaction whose details the node returns.
GoodView(meta) == RpcView("confirmed", FALSE, "meta", meta)

VerifyInputs ==
    [payload : {CompletePayload}, requirement : IssuedRequirements,
     rpc : { GoodView(m) : m \in Metas }]
    \cup
    [payload : Payloads, requirement : IssuedRequirements,
     rpc : { RpcView(st, e, pa, SampleMeta) :
               st \in {"throw", "null", "processed", "confirmed", "finalized"},
               e \in BOOLEAN, pa \in {"throw", "null", "meta"} }]

Invalid(reason) == [isValid |-> FALSE, invalidReason |-> reason, payer |-> "none"]

\* uiTokenAmount.uiAmount || 0, kept in units of 10^-6 so that
\* Math.round(delta * 1000000) is the difference of the two values.
UiAmount(b) == b.amount

\* Variant: any credited USDC account counts, whoever owns it.
IsTreasuryCredit_AnyOwner(postBal, delta) ==
    delta > 0 /\ postBal.mint = USDC_MINT

\* delta > 0 && postBal.mint === USDC_MINT && postBal.owner === TREASURY
IsTreasuryCredit(postBal, delta) ==
    delta > 0 /\ postBal.mint = USDC_MINT /\ postBal.owner = TREASURY

\* localVerifyOnChain(paymentPayload, paymentRequirements) of x402-verify.
\* getTransaction at commitment 'confirmed' returns the transaction only once
\* it is confirmed.
SharedLocalVerify(paymentPayload, paymentRequirements, rpc) ==
    IF paymentPayload.signature = "" \/ paymentPayload.payer = ""
    THEN Invalid("Missing signature or payer in paymentPayload")
    ELSE IF rpc.parsed = "throw"
    THEN Invalid("Local verification error")
    ELSE IF rpc.parsed = "null" \/ rpc.status \notin {"confirmed", "finalized"}
    THEN Invalid("Transaction not found on chain")
    ELSE IF rpc.err
    THEN Invalid("Transaction failed on chain")
    ELSE
      LET preTokenBalances == rpc.meta.preTokenBalances
          postTokenBalances == rpc.meta.postTokenBalances
          PostOf(preBal) ==
              FindIndex(postTokenBalances, LAMBDA q : q.accountIndex = preBal.accountIndex)
          PreOf(postBal) ==
              FindIndex(preTokenBalances, LAMBDA q : q.accountIndex = postBal.accountIndex)
          \* first loop: every debited USDC account overwrites transferAmount
          Debited == { i \in 1..Len(preTokenBalances) :
                         /\ PostOf(preTokenBalances[i]) # 0
                         /\ UiAmount(preTokenBalances[i])
                              - UiAmount(postTokenBalances[PostOf(preTokenBalances[i])]) > 0
                         /\ preTokenBalances[i].mint = USDC_MINT }
          last == CHOOSE i \in Debited : \A j \in Debited : j <= i
          transferAmount ==
              IF Debited = {} THEN 0
              ELSE UiAmount(preTokenBalances[last])
                     - UiAmount(postTokenBalances[PostOf(preTokenBalances[last])])
          \* second loop: some treasury USDC account listed before and after grew
          transferredToTreasury ==
              \E i \in 1..Len(postTokenBalances) :
                 /\ PreOf(postTokenBalances[i]) # 0
                 /\ IsTreasuryCredit(postTokenBalances[i],
                        UiAmount(postTokenBalances[i])
                          - UiAmount(preTokenBalances[PreOf(postTokenBalances[i])]))
          requiredAmount == paymentRequirements.maxAmountRequired
      IN IF ~transferredToTreasury
         THEN Invalid("No USDC transfer to Treasury found")
         ELSE IF transferAmount < requiredAmount
         THEN Invalid("Insufficient amount")
         ELSE [isValid |-> TRUE, invalidReason |-> "none", payer |-> paymentPayload.payer]

\* X402_VERIFY_MODE values verifyPayment distinguishes, and one it does not.
SharedVerifyModes == {"local-only", "local-first", "dual", "facilitator-only",
                      "facilitator-first"}
FacilitatorAnswers == {"throws", "non2xx", "invalid", "valid"}

NoVerify == [isValid |-> FALSE, invalidReason |-> "null", payer |-> "none"]

PolicyResult(verify, usedLocalVerify, error, status, facilitatorCalls, localCalls) ==
    [verify |-> verify, usedLocalVerify |-> usedLocalVerify, error |-> error,
     status |-> status, facilitatorCalls |-> facilitatorCalls,
     localCalls |-> localCalls]

\* verifyPayment(paymentPayload, paymentRequirements) under mode, with the
\* facilitator's answer fac and the local verifier's result local.
verifyPayment(mode, fac, local) ==
    LET remote == IF fac = "valid"
                  THEN [isValid |-> TRUE, invalidReason |-> "none", payer |-> "PAYER"]
                  ELSE IF fac = "invalid"
                  THEN Invalid("facilitator says invalid")
                  ELSE NoVerify
        Final(verify, used, f, l) ==
            IF ~verify.isValid
            THEN PolicyResult(verify, used, "Payment verification failed", 402, f, l)
            ELSE PolicyResult(verify, used, "none", 200, f, l)
    IN IF mode = "local-only"
       THEN Final(local, TRUE, 0, 1)
       ELSE IF ~remote.isValid
            THEN IF mode = "local-first" \/ mode = "dual"
                 THEN Final(local, TRUE, 1, 1)
                 ELSE IF mode = "facilitator-only"
                 THEN PolicyResult(NoVerify, FALSE,
                        "Facilitator verification failed and local fallback disabled",
                        502, 1, 0)
                 ELSE Final(remote, FALSE, 1, 0)
            ELSE Final(remote, FALSE, 1, 0)

\* verifyPayment(paymentProof) of the chat route: the treasury's native
\* balance change in a transaction read at commitment 'confirmed'.
\* recipientIndex is -1 when the treasury is not among the account keys.
chatVerifyPayment(rpc, recipientIndex, received, expectedAmount) ==
    IF rpc.parsed = "throw" THEN FALSE
    ELSE IF rpc.parsed = "null" \/ rpc.status \notin {"confirmed", "finalized"} THEN FALSE
    ELSE IF rpc.err THEN FALSE
    ELSE IF recipientIndex = -1 THEN FALSE
    ELSE received >= expectedAmount

\* Variant: a proof is accepted once and refused when presented again.
VerifierCall_OnceOnly(earlierCalls, paymentPayload, paymentRequirements, rpc) ==
    IF earlierCalls > 0
    THEN [gateway |-> FALSE, shared |-> Invalid("Payment already used")]
    ELSE [gateway |-> localVerifyOnChain(rpc, paymentRequirements),
          shared |-> SharedLocalVerify(paymentPayload, paymentRequirements, rpc)]

\* One call of each local verifier for a proof that was verified earlierCalls
\* times before: neither verifier keeps anything between calls.
VerifierCall(earlierCalls, paymentPayload, paymentRequirements, rpc) ==
    [gateway |-> localVerifyOnChain(rpc, paymentRequirements),
     shared |-> SharedLocalVerify(paymentPayload, paymentRequirements, rpc)]

VARIABLES
    vpc,                 \* "ready", "verified" (a verifier ran), "verifiedTwice",
                         \* "decided"
    vin,                 \* the proof, the requirement and the node's answers
    vout,                \* what the two local verifiers returned
    vout2,               \* what they returned when called again
    vpolicy              \* what verifyPayment returned, with its mode and answer

vvars == << vpc, vin, vout, vout2, vpolicy >>

NoOut == [gateway |-> FALSE, shared |-> NoVerify]
NoPolicy == [mode |-> "none", fac |-> "none",
             result |-> PolicyResult(NoVerify, FALSE, "none", 0, 0, 0)]

VInit ==
    /\ vpc = "ready"
    /\ vin \in VerifyInputs
    /\ vout = NoOut
    /\ vout2 = NoOut
    /\ vpolicy = NoPolicy

\* Both local verifiers on the same transaction and requirement.
RunLocalVerify ==
    /\ vpc = "ready"
    /\ vout' = VerifierCall(0, vin.payload, vin.requirement, vin.rpc)
    /\ vpc' = "verified"
    /\ UNCHANGED << vin, vout2, vpolicy >>

\* The same proof and requirement verified again, the chain unchanged.
RunLocalVerifyAgain ==
    /\ vpc = "verified"
    /\ vout2' = VerifierCall(1, vin.payload, vin.requirement, vin.rpc)
    /\ vpc' = "verifiedTwice"
    /\ UNCHANGED << vin, vout, vpolicy >>

\* verifyPayment under some mode and facilitator answer.
RunVerifyPayment ==
    /\ vpc = "ready"
    /\ \E mode \in SharedVerifyModes, fac \in FacilitatorAnswers :
         vpolicy' = [mode |-> mode, fac |-> fac,
                     result |-> verifyPayment(mode, fac,
                        SharedLocalVerify(vin.payload, vin.requirement, vin.rpc))]
    /\ vpc' = "decided"
    /\ UNCHANGED << vin, vout, vout2 >>

VNext ==
    \/ RunLocalVerify
    \/ RunLocalVerifyAgain
    \/ RunVerifyPayment

\* =========================================================================
\* Wallet bridge: WalletBridgeService and POST /wallet/transaction/submit
\* =========================================================================
\* Time is counted in minutes, the period of the cleanup interval.
\* this.transactionTimeout = 5 * 60 * 1000
transactionTimeout == 5
\* Last minute of the model's clock (bound).
MaxClock == 7

\* The id signTransaction generates, ids the callers may name, the callers.
TxId == "tx_1"
SubmittedTxIds == {TxId, "tx_unknown", ""}
SubmittedTransactions == {"signedBase64", ""}
Callers == {"c1", "c2"}

VARIABLES
    now,                 \* Date.now()
    inMap,               \* whether pendingTransactions holds the id
    pending,             \* the entry object: status ("absent" before it is
                         \* created) and createdAt
    bpc,                 \* each call's position: "idle", "sending", "confirming", "done"
    bcall,               \* each call's arguments and the time it was made (-1: not yet)
    bsends,              \* sendRawTransaction calls made by each call
    blanded,             \* the transaction on chain: "no", "ok", "err"
    breply,              \* what the route answered each call
    sessionOpen,         \* whether userSessions holds the session of the entry
    removedBy            \* what deleted the entry from pendingTransactions:
                         \* "none", "cancel", "expired" (getPendingTransaction),
                         \* "sweep", "close" or "completed"

bvars == << now, inMap, pending, bpc, bcall, bsends, blanded, breply,
            sessionOpen, removedBy >>

NoBReply == [status |-> 0, success |-> FALSE, error |-> "none"]
BReplyError(status, error) == [status |-> status, success |-> FALSE, error |-> error]
BReplySuccess == [status |-> 200, success |-> TRUE, error |-> "none"]

BInit ==
    /\ now = 0
    /\ inMap = FALSE
    /\ pending = [status |-> "absent", createdAt |-> 0]
    /\ bpc = [c \in Callers |-> "idle"]
    /\ bcall = [c \in Callers |-> [txId |-> "", signedTransaction |-> "", at |-> -1]]
    /\ bsends = [c \in Callers |-> 0]
    /\ blanded = "no"
    /\ breply = [c \in Callers |-> NoBReply]
    /\ sessionOpen = TRUE
    /\ removedBy = "none"

\* Time passes.
BTick ==
    /\ now < MaxClock
    /\ now' = now + 1
    /\ UNCHANGED << inMap, pending, bpc, bcall, bsends, blanded, breply,
                    sessionOpen, removedBy >>

\* walletAdapter.signTransaction: the transaction is stored for the frontend.
SignTransaction ==
    /\ sessionOpen                                         \* requireSession
    /\ pending.status = "absent"
    /\ inMap' = TRUE
    /\ pending' = [status |-> "pending_signature", createdAt |-> now]
    /\ UNCHANGED << now, bpc, bcall, bsends, blanded, breply, sessionOpen, removedBy >>

\* Variant: getPendingTransaction leaves expiry to the cleanup interval.
IsExpired_Never(createdAt, t) == FALSE

\* Date.now() - pending.createdAt > this.transactionTimeout
IsExpired(createdAt, t) == t - createdAt > transactionTimeout

\* Variant: the status of the entry is not looked at.
AlreadyProcessed_Never(status) == FALSE

\* pending.status !== 'pending_signature'
AlreadyProcessed(status) == status # "pending_signature"

\* The route up to the first await of submitSignedTransaction: the parameter
\* check, getPendingTransaction, the status check, and the status update.
SubmitCall(c) ==
    /\ bpc[c] = "idle"
    /\ \E txId \in SubmittedTxIds, signedTx \in SubmittedTransactions :
         /\ bcall' = [bcall EXCEPT ![c] = [txId |-> txId,
                                           signedTransaction |-> signedTx,
                                           at |-> now]]
         /\ IF txId = "" \/ signedTx = ""
            THEN /\ breply' = [breply EXCEPT ![c] =
                       BReplyError(400, "Transaction ID and signed transaction required")]
                 /\ bpc' = [bpc EXCEPT ![c] = "done"]
                 /\ UNCHANGED << inMap, pending, removedBy >>
            ELSE IF txId # TxId \/ ~inMap
            THEN /\ breply' = [breply EXCEPT ![c] =
                       BReplyError(500, "Transaction not found or expired")]
                 /\ bpc' = [bpc EXCEPT ![c] = "done"]
                 /\ UNCHANGED << inMap, pending, removedBy >>
            ELSE IF IsExpired(pending.createdAt, now)
            THEN /\ inMap' = FALSE
                 /\ removedBy' = "expired"
                 /\ breply' = [breply EXCEPT ![c] = BReplyError(500, "Transaction expired")]
                 /\ bpc' = [bpc EXCEPT ![c] = "done"]
                 /\ UNCHANGED pending
            ELSE IF AlreadyProcessed(pending.status)
            THEN /\ breply' = [breply EXCEPT ![c] =
                       BReplyError(500, "Transaction already processed")]
                 /\ bpc' = [bpc EXCEPT ![c] = "done"]
                 /\ UNCHANGED << inMap, pending, removedBy >>
            ELSE /\ pending' = [pending EXCEPT !.status = "broadcasting"]
                 /\ bpc' = [bpc EXCEPT ![c] = "sending"]
                 /\ UNCHANGED << inMap, breply, removedBy >>
    /\ UNCHANGED << now, bsends, blanded, sessionOpen >>

\* The catch of submitSignedTransaction and of the route.
SubmitFailed(c) ==
    /\ pending' = [pending EXCEPT !.status = "failed"]
    /\ breply' = [breply EXCEPT ![c] = BReplyError(500, "error")]
    /\ bpc' = [bpc EXCEPT ![c] = "done"]

\* await this.connection.sendRawTransaction(signedTxBuffer, ...)
SubmitBroadcast(c) ==
    /\ bpc[c] = "sending"
    /\ bsends' = [bsends EXCEPT ![c] = @ + 1]
    /\ \/ \E l \in {"no", "ok", "err"} :                   \* the call rejects
            /\ blanded' = (IF blanded = "no" THEN l ELSE blanded)
            /\ SubmitFailed(c)
       \/ /\ pending' = [pending EXCEPT !.status = "confirming"]
          /\ bpc' = [bpc EXCEPT ![c] = "confirming"]
          /\ UNCHANGED << blanded, breply >>
    /\ UNCHANGED << now, inMap, bcall, sessionOpen, removedBy >>

\* await this.connection.confirmTransaction(signature, 'confirmed')
SubmitConfirmation(c) ==
    /\ bpc[c] = "confirming"
    /\ \/ \E l \in {"no", "ok", "err"} :                   \* the call rejects
            /\ blanded' = (IF blanded = "no" THEN l ELSE blanded)
            /\ SubmitFailed(c)
            /\ UNCHANGED << inMap, removedBy >>
       \/ /\ blanded \in {"no", "err"}                     \* confirmation.value.err
          /\ blanded' = "err"
          /\ SubmitFailed(c)
          /\ UNCHANGED << inMap, removedBy >>
       \/ /\ blanded \in {"no", "ok"}
          /\ blanded' = "ok"
          /\ inMap' = FALSE                                \* pendingTransactions.delete
          /\ removedBy' = (IF inMap THEN "completed" ELSE removedBy)
          /\ breply' = [breply EXCEPT ![c] = BReplySuccess]
          /\ bpc' = [bpc EXCEPT ![c] = "done"]
          /\ UNCHANGED pending
    /\ UNCHANGED << now, bcall, bsends, sessionOpen >>

\* cancelTransaction(txId) on an entry still waiting for its signature.
CancelTransaction ==
    /\ inMap
    /\ pending.status = "pending_signature"
    /\ inMap' = FALSE
    /\ removedBy' = "cancel"
    /\ UNCHANGED << now, pending, bpc, bcall, bsends, blanded, breply, sessionOpen >>

\* POST /session/close: closeSession deletes every pending transaction of the
\* session, whatever its status, and then the session.
CloseSession ==
    /\ sessionOpen                                         \* requireSession
    /\ sessionOpen' = FALSE
    /\ inMap' = FALSE
    /\ removedBy' = (IF inMap THEN "close" ELSE removedBy)
    /\ UNCHANGED << now, pending, bpc, bcall, bsends, blanded, breply >>

\* Variant: the interval callback deletes nothing.
SweepExpired_Never(createdAt, t) == FALSE

\* now - pending.createdAt > this.transactionTimeout, in the interval callback.
SweepExpired(createdAt, t) == t - createdAt > transactionTimeout

\* The callback's second loop closes sessions inactive for an hour. An entry is
\* stored by a request that passed requireSession, which sets lastActivity, so
\* the first loop has deleted the entry long before its session can lapse.

\* The cleanup interval: expired entries are deleted, whatever their status.
\* The callback may run at any instant of the current minute.
Cleanup ==
    /\ inMap
    /\ SweepExpired(pending.createdAt, now)
    /\ inMap' = FALSE
    /\ removedBy' = "sweep"
    /\ UNCHANGED << now, pending, bpc, bcall, bsends, blanded, breply, sessionOpen >>

\* The cleanup interval on its schedule: setInterval(..., 60 * 1000) runs the
\* callback once every minute, so a minute never passes without it.
SweepTick ==
    /\ now < MaxClock
    /\ now' = now + 1
    /\ IF inMap /\ SweepExpired(pending.createdAt, now + 1)
       THEN inMap' = FALSE /\ removedBy' = "sweep"
       ELSE UNCHANGED << inMap, removedBy >>
    /\ UNCHANGED << pending, bpc, bcall, bsends, blanded, breply, sessionOpen >>

BNext ==
    \/ BTick
    \/ SignTransaction
    \/ \E c \in Callers : SubmitCall(c)
    \/ \E c \in Callers : SubmitBroadcast(c)
    \/ \E c \in Callers : SubmitConfirmation(c)
    \/ CancelTransaction
    \/ CloseSession
    \/ Cleanup

\* =========================================================================
\* Human-in-the-loop confirmations: HITLService
\* =========================================================================
\* Time is counted in minutes. config.defaultTimeout || 300000
defaultTimeout == 5
\* config.maxPendingRequests || 10
DefaultMaxPendingRequests == 10
\* confirmationHistory keeps the last 1000 entries.
HistoryLimit == 1000
\* Last minute of the confirmation clock (bound).
MaxHitlClock == 6

\* The ids requestConfirmation generates, and the ids a caller may name.
RequestIds == {"req_1", "req_2"}
NamedIds == RequestIds \cup {"req_unknown"}
\* operation.timeout; 0 stands for an operation that gives none.
OperationTimeouts == {0, 1, 2}
TerminalStatuses == {"APPROVED", "REJECTED", "EXPIRED"}

VARIABLES
    hnow,                \* Date.now()
    config,              \* this.config (maxPendingRequests)
    requests,            \* the request objects by id: status ("none" until the
                         \* request is made) and expiresAt
    pendingRequests,     \* the keys of the Map, in insertion order
    confirmationHistory, \* the array, holding the request objects by id
    timers,              \* ids whose setTimeout callback has not run yet
    hresult              \* the outcome of the last call

hvars == << hnow, config, requests, pendingRequests, confirmationHistory, timers,
            hresult >>

NoHResult == [op |-> "none", id |-> "none", success |-> FALSE, status |-> "none",
              error |-> "none"]
HResult(op, id, success, status, error) ==
    [op |-> op, id |-> id, success |-> success, status |-> status, error |-> error]

HInit ==
    /\ hnow = 0
    /\ config \in [maxPendingRequests : {1, DefaultMaxPendingRequests}]
    /\ requests = [id \in NamedIds |-> [status |-> "none", expiresAt |-> 0]]
    /\ pendingRequests = << >>
    /\ confirmationHistory = << >>
    /\ timers = {}
    /\ hresult = NoHResult

HIdle == HInit /\ config.maxPendingRequests = DefaultMaxPendingRequests

\* Time passes.
HTick ==
    /\ hnow < MaxHitlClock
    /\ hnow' = hnow + 1
    /\ UNCHANGED << config, requests, pendingRequests, confirmationHistory, timers,
                    hresult >>

\* this.pendingRequests.has(id) / .get(id) / .delete(id)
Has(map, id) == \E i \in 1..Len(map) : map[i] = id
Delete(map, id) == SelectSeq(map, LAMBDA k : k # id)

\* addToHistory(request): push, and shift once the array is over its limit.
addToHistory(history, id) ==
    LET pushed == Append(history, id)
    IN IF Len(pushed) > HistoryLimit THEN Tail(pushed) ELSE pushed

\* requestConfirmation(operation): auto-approved operations are answered and
\* not stored; the others are stored as PENDING with their timer.
RequestConfirmation ==
    \E id \in RequestIds, auto \in BOOLEAN, timeout \in OperationTimeouts :
        /\ requests[id].status = "none"
        /\ IF auto
           THEN /\ hresult' = HResult("request", id, TRUE, "APPROVED", "none")
                /\ UNCHANGED << requests, pendingRequests, timers >>
           ELSE IF Len(pendingRequests) >= config.maxPendingRequests
           THEN /\ hresult' = HResult("request", id, FALSE, "none",
                                      "Too many pending confirmation requests")
                /\ UNCHANGED << requests, pendingRequests, timers >>
           ELSE /\ requests' = [requests EXCEPT ![id] =
                       [status |-> "PENDING",
                        expiresAt |-> hnow + (IF timeout # 0 THEN timeout
                                              ELSE defaultTimeout)]]
                /\ pendingRequests' = Append(pendingRequests, id)
                /\ timers' = timers \cup {id}
                /\ hresult' = HResult("request", id, TRUE, "PENDING", "none")
        /\ UNCHANGED << hnow, config, confirmationHistory >>

\* The body shared by approve and reject: look the request up, refuse one that
\* is absent or not PENDING, else set the status, delete, add to the history.
Decide(op, id, status) ==
    IF ~Has(pendingRequests, id)
    THEN /\ hresult' = HResult(op, id, FALSE, "none",
                               "Request not found or already processed")
         /\ UNCHANGED << requests, pendingRequests, confirmationHistory >>
    ELSE IF requests[id].status # "PENDING"
    THEN /\ hresult' = HResult(op, id, FALSE, "none", "Request already decided")
         /\ UNCHANGED << requests, pendingRequests, confirmationHistory >>
    ELSE /\ requests' = [requests EXCEPT ![id].status = status]
         /\ pendingRequests' = Delete(pendingRequests, id)
         /\ confirmationHistory' = addToHistory(confirmationHistory, id)
         /\ hresult' = HResult(op, id, TRUE, status, "none")

\* approve(requestId, approverInfo)
Approve(id) ==
    /\ Decide("approve", id, "APPROVED")
    /\ UNCHANGED << hnow, config, timers >>

\* reject(requestId, reason, rejectorInfo)
Reject(id) ==
    /\ Decide("reject", id, "REJECTED")
    /\ UNCHANGED << hnow, config, timers >>

\* Variant: the timer callback expires the request without looking it up.
TimerFinds_Always(map, id) == TRUE

\* The timer callback's guard: if (this.pendingRequests.has(requestId))
TimerFinds(map, id) == Has(map, id)

\* The setTimeout callback of setupTimeout; it runs once, not before the
\* request's expiry time, and nothing clears it.
TimerFires(id) ==
    /\ id \in timers
    /\ hnow >= requests[id].expiresAt
    /\ timers' = timers \ {id}
    /\ IF TimerFinds(pendingRequests, id)
       THEN /\ requests' = [requests EXCEPT ![id].status = "EXPIRED"]
            /\ pendingRequests' = Delete(pendingRequests, id)
            /\ confirmationHistory' = addToHistory(confirmationHistory, id)
       ELSE UNCHANGED << requests, pendingRequests, confirmationHistory >>
    /\ UNCHANGED << hnow, config, hresult >>

\* cleanupExpiredRequests(): every stored request whose expiresAt has come is
\* expired, in the Map's order.
RECURSIVE ExpireAll(_, _)
ExpireAll(ids, history) ==
    IF ids = << >> THEN history
    ELSE ExpireAll(Tail(ids), addToHistory(history, Head(ids)))

CleanupExpiredRequests ==
    LET due == SelectSeq(pendingRequests, LAMBDA k : requests[k].expiresAt <= hnow)
    IN /\ requests' = [id \in NamedIds |->
                          IF Has(due, id) THEN [requests[id] EXCEPT !.status = "EXPIRED"]
                          ELSE requests[id]]
       /\ pendingRequests' = SelectSeq(pendingRequests, LAMBDA k : ~Has(due, k))
       /\ confirmationHistory' = ExpireAll(due, confirmationHistory)
       /\ hresult' = HResult("cleanup", "none", TRUE, "none", "none")
       /\ UNCHANGED << hnow, config, timers >>

HNext ==
    \/ HTick
    \/ RequestConfirmation
    \/ \E id \in NamedIds : Approve(id)
    \/ \E id \in NamedIds : Reject(id)
    \/ \E id \in RequestIds : TimerFires(id)
    \/ CleanupExpiredRequests

\* =========================================================================
\* Specifications: one per entry point; the variables of the other entry
\* points stay at their initial values.
\* =========================================================================
GIdle == GInit /\ VERIFY_MODE = "facilitator-first" /\ PAYLOAD_MODE = "transaction"
                  /\ request.method = "GET"
SIdle == SInit /\ signedTransaction = [kind |-> "missing", lastValidBlockHeight |-> 0]
VIdle == VInit /\ vin = [payload |-> CompletePayload,
                         requirement |-> [scheme |-> "exact", network |-> "solana",
                                          asset |-> USDC_MINT, maxAmountRequired |-> 0,
                                          payTo |-> TREASURY],
                         rpc |-> GoodView(SampleMeta)]

vars == << gvars, svars, vvars, bvars, hvars >>

Init == GInit /\ SIdle /\ VIdle /\ BInit /\ HIdle

Next ==
    \/ InitialRequest /\ UNCHANGED << svars, vvars, bvars, hvars >>
    \/ Parse402 /\ UNCHANGED << svars, vvars, bvars, hvars >>
    \/ CheckAta /\ UNCHANGED << svars, vvars, bvars, hvars >>
    \/ BuildAndSign /\ UNCHANGED << svars, vvars, bvars, hvars >>
    \/ FacilitatorVerify /\ UNCHANGED << svars, vvars, bvars, hvars >>
    \/ FacilitatorSettle /\ UNCHANGED << svars, vvars, bvars, hvars >>
    \/ LocalBroadcast /\ UNCHANGED << svars, vvars, bvars, hvars >>
    \/ LocalConfirm /\ UNCHANGED << svars, vvars, bvars, hvars >>
    \/ LocalVerify /\ UNCHANGED << svars, vvars, bvars, hvars >>
    \/ Replay /\ UNCHANGED << svars, vvars, bvars, hvars >>

\* The gateway handling one request.
Spec == Init /\ [][Next]_vars

\* The handler is one async function: each await it reaches returns or throws,
\* so the step that follows it is eventually taken.
SpecLive == Init /\ [][Next]_vars /\ WF_vars(Next)

SubmitInit == GIdle /\ SInit /\ VIdle /\ BInit /\ HIdle

SubmitNext ==
    \/ SubmitStart /\ UNCHANGED << gvars, vvars, bvars, hvars >>
    \/ SubmitSend /\ UNCHANGED << gvars, vvars, bvars, hvars >>
    \/ ChainAdvance /\ UNCHANGED << gvars, vvars, bvars, hvars >>
    \/ SubmitConfirm /\ UNCHANGED << gvars, vvars, bvars, hvars >>
    \/ SubmitInnerCheck /\ UNCHANGED << gvars, vvars, bvars, hvars >>
    \/ SubmitCatch /\ UNCHANGED << gvars, vvars, bvars, hvars >>

\* The wallet route handling one submission.
SpecSubmit == SubmitInit /\ [][SubmitNext]_vars

VerifyInit == GIdle /\ SIdle /\ VInit /\ BInit /\ HIdle

VerifyNext ==
    \/ RunLocalVerify /\ UNCHANGED << gvars, svars, bvars, hvars >>
    \/ RunLocalVerifyAgain /\ UNCHANGED << gvars, svars, bvars, hvars >>
    \/ RunVerifyPayment /\ UNCHANGED << gvars, svars, bvars, hvars >>

\* The verifiers applied to one proof.
SpecVerify == VerifyInit /\ [][VerifyNext]_vars

BridgeInit == GIdle /\ SIdle /\ VIdle /\ BInit /\ HIdle

BridgeNext ==
    \/ BTick /\ UNCHANGED << gvars, svars, vvars, hvars >>
    \/ SignTransaction /\ UNCHANGED << gvars, svars, vvars, hvars >>
    \/ (\E c \in Callers : SubmitCall(c)) /\ UNCHANGED << gvars, svars, vvars, hvars >>
    \/ (\E c \in Callers : SubmitBroadcast(c)) /\ UNCHANGED << gvars, svars, vvars, hvars >>
    \/ (\E c \in Callers : SubmitConfirmation(c)) /\ UNCHANGED << gvars, svars, vvars, hvars >>
    \/ CancelTransaction /\ UNCHANGED << gvars, svars, vvars, hvars >>
    \/ CloseSession /\ UNCHANGED << gvars, svars, vvars, hvars >>
    \/ Cleanup /\ UNCHANGED << gvars, svars, vvars, hvars >>

\* The wallet bridge with one pending transaction and concurrent submit calls.
SpecBridge == BridgeInit /\ [][BridgeNext]_vars

HitlInit == GIdle /\ SIdle /\ VIdle /\ BInit /\ HInit

HitlNext ==
    \/ HTick /\ UNCHANGED << gvars, svars, vvars, bvars >>
    \/ RequestConfirmation /\ UNCHANGED << gvars, svars, vvars, bvars >>
    \/ (\E id \in NamedIds : Approve(id)) /\ UNCHANGED << gvars, svars, vvars, bvars >>
    \/ (\E id \in NamedIds : Reject(id)) /\ UNCHANGED << gvars, svars, vvars, bvars >>
    \/ (\E id \in RequestIds : TimerFires(id)) /\ UNCHANGED << gvars, svars, vvars, bvars >>
    \/ CleanupExpiredRequests /\ UNCHANGED << gvars, svars, vvars, bvars >>

\* The confirmation service with two requests, their timers, and callers
\* approving and rejecting in any order.
SpecHitl == HitlInit /\ [][HitlNext]_vars

SweepNext ==
    \/ SweepTick /\ UNCHANGED << gvars, svars, vvars, hvars >>
    \/ SignTransaction /\ UNCHANGED << gvars, svars, vvars, hvars >>
    \/ (\E c \in Callers : SubmitCall(c)) /\ UNCHANGED << gvars, svars, vvars, hvars >>
    \/ (\E c \in Callers : SubmitBroadcast(c)) /\ UNCHANGED << gvars, svars, vvars, hvars >>
    \/ (\E c \in Callers : SubmitConfirmation(c)) /\ UNCHANGED << gvars, svars, vvars, hvars >>
    \/ CancelTransaction /\ UNCHANGED << gvars, svars, vvars, hvars >>
    \/ CloseSession /\ UNCHANGED << gvars, svars, vvars, hvars >>

\* The wallet bridge on the timer's schedule: the interval callback runs every
\* minute whatever the requests do.
SpecSweep ==
    /\ BridgeInit
    /\ [][SweepNext]_vars
    /\ WF_vars(SweepTick /\ UNCHANGED << gvars, svars, vvars, hvars >>)

\* =========================================================================
\* Properties
\* =========================================================================

\* ---- C1 (SpecSubmit). No double-pay on reconciliation: once a transaction
\* was broadcast and a status look-up made after the failed confirmation
\* returned it as confirmed or finalized without an error, the route answers
\* success for that signature; and it never broadcasts more than once.
C1_ReconciledSuccess ==
    /\ scalls.sends <= 1
    /\ (/\ spc = "done"
        /\ ~chainTx.err
        /\ sawOnChain \cap {"confirmed", "finalized"} # {})
       => (/\ sreply.success
           /\ sreply.status = 200
           /\ sreply.signature = signature
           /\ signature = "sig"
           /\ scalls.sends = 1)

\* A submission whose confirmation failed with an expiry error and whose
\* reconciliation look-up found it confirmed.
C1_Witness ==
    /\ spc = "done"
    /\ errorMsg = "expiry"
    /\ ~chainTx.err
    /\ "confirmed" \in sawOnChain
    /\ sreply.reconciled
    /\ sreply.success

\* ---- C2 (Spec). Pass-through of non-402: when the initial upstream response
\* is not a 402, the answer has its status, its body and its content type, and
\* nothing was fetched from the chain, built, signed, verified or broadcast.
C2_PassThroughUnchanged ==
    (gpc = "done" /\ r1.status \notin {0, 402})
    => (/\ reply.status = r1.status
        /\ reply.body = r1.body
        /\ reply.contentType = r1.contentType
        /\ calls = [NoCalls EXCEPT !.fetch = 1])

FacilitatorFailed ==
    \/ facVerifyAnswer \in {"throws", "non2xx", "malformed", "invalid"}
    \/ facSettleAnswer \in {"throws", "non2xx", "malformed", "notSuccess"}

\* ---- C4 (Spec). Facilitator-only never consults local: in that mode the
\* payment transaction is never broadcast by the gateway and the local
\* verifier is never called, and a facilitator failure ends the request with
\* the 502 of that mode and without a replay.
C4_RemoteOnlyNeverLocal ==
    VERIFY_MODE = "facilitator-only"
    => /\ calls.paySends = 0
       /\ calls.localVerify = 0
       /\ gpc \notin {"local", "localConfirm", "localVerify"}
       /\ FacilitatorFailed
          => (/\ gpc = "done"
              /\ reply.status = 502
              /\ reply.error = "Facilitator verification failed in facilitator-only mode"
              /\ calls.replays = 0
              /\ ~verificationPassed)

\* Facilitator-only, the facilitator timed out, the request failed.
C4_Witness ==
    /\ VERIFY_MODE = "facilitator-only"
    /\ facVerifyAnswer = "throws"
    /\ gpc = "done"
    /\ reply.status = 502

\* ---- C5 (Spec). Under facilitator-first a definitive isValid:false of the
\* facilitator is final: nothing is broadcast or verified locally, and the
\* request ends without a replay.
C5_NoFallbackOnInvalid ==
    (VERIFY_MODE = "facilitator-first" /\ facVerifyAnswer = "invalid")
    => /\ calls.paySends = 0
       /\ calls.localVerify = 0
       /\ calls.replays = 0

\* The payee's balance change of the required asset in a transaction.
AmountAt(table, i) ==
    LET k == FindIndex(table, LAMBDA e : e.accountIndex = i)
    IN IF k = 0 THEN 0 ELSE table[k].amount

RECURSIVE DeltaUpTo(_, _, _)
DeltaUpTo(meta, req, n) ==
    IF n = 0 THEN 0
    ELSE DeltaUpTo(meta, req, n - 1)
         + (IF AccMint[n] = req.asset /\ AccOwner[n] = req.payTo
            THEN AmountAt(meta.postTokenBalances, n) - AmountAt(meta.preTokenBalances, n)
            ELSE 0)

PayeeDelta(meta, req) == DeltaUpTo(meta, req, NumAccounts)

\* A confirmed, error-free transaction was verified for a complete proof and
\* a positive amount.
VerifiedGood ==
    /\ vpc = "verified"
    /\ vin.payload = CompletePayload
    /\ vin.rpc.status \in {"confirmed", "finalized"}
    /\ ~vin.rpc.err
    /\ vin.rpc.parsed = "meta"
    /\ vin.requirement.maxAmountRequired >= 1

\* ---- C6 (SpecVerify). Amount lower bound: on a confirmed, error-free
\* transaction each local verifier accepts exactly when the payee's balance of
\* the required asset grew by at least the required amount.
C6_AmountLowerBound ==
    VerifiedGood
    => LET enough == PayeeDelta(vin.rpc.meta, vin.requirement)
                       >= vin.requirement.maxAmountRequired
       IN /\ vout.gateway <=> enough
          /\ vout.shared.isValid <=> enough

\* The gateway's verifier alone meets the lower bound.
GatewayAmountLowerBound ==
    VerifiedGood
    => (vout.gateway <=> PayeeDelta(vin.rpc.meta, vin.requirement)
                           >= vin.requirement.maxAmountRequired)

\* The transaction paid the required amount to the merchant's account and
\* nothing to the treasury's.
PaidWrongRecipient ==
    LET pre == vin.rpc.meta.preTokenBalances
        post == vin.rpc.meta.postTokenBalances
    IN /\ AmountAt(post, 3) - AmountAt(pre, 3) >= vin.requirement.maxAmountRequired
       /\ AmountAt(post, 2) - AmountAt(pre, 2) <= 0
       /\ AmountAt(post, 4) - AmountAt(pre, 4) <= 0

SampleInstructionLists ==
    LET t == createTransferCheckedInstruction(USDC, TREASURY, agent, 1)
        c == createAssociatedTokenAccountInstruction(agent, TREASURY, USDC)
    IN { << >>, << t >>, << c >>, << t, t >>, << c, t >>, << t, c >>,
         << [t EXCEPT !.tag = 3] >>, << [t EXCEPT !.keys = 3] >> }

\* ---- C8 (Spec). Single-instruction invariant: the payment transaction the
\* builders emit holds exactly one transfer instruction; the assertion passes
\* no instruction list of another length; and whatever is signed, sent to the
\* facilitator or broadcast is a transaction of exactly one instruction.
C8_SingleInstruction ==
    /\ tx # NoTx
       => (/\ Len(tx.instructions) = 1
           /\ tx.instructions[1].tag = TransferCheckedTag)
    /\ tx.signed => Len(tx.instructions) = 1
    /\ (calls.signs > 0 \/ calls.facVerify > 0 \/ calls.paySends > 0)
       => (tx.signed /\ Len(tx.instructions) = 1)
    /\ \A l \in SampleInstructionLists :
         assertSingleTransferChecked([NoTx EXCEPT !.instructions = l]) => Len(l) = 1
    /\ \A n \in BridgeNetworks, a \in 0..MaxAmount, m \in Assets :
         Len(BridgeInstructions(n, a, m)) = 1

\* A signed payment transaction that the gateway broadcast.
C8_Witness ==
    /\ tx.signed
    /\ Len(tx.instructions) = 1
    /\ calls.paySends = 1

\* ---- C9 (Spec). Protocol-incompatible requirements are rejected before
\* building: with a scheme other than exact, another network, or an amount
\* that is not positive, no chain call is made and no transaction is built,
\* and the request ends in a failure.
C9_IncompatibleRejected ==
    (/\ accept # NoAccept
     /\ \/ accept.scheme # "exact"
        \/ accept.network # "solana"
        \/ accept.maxAmountRequired <= 0)
    => /\ calls.rpc = 0
       /\ calls.built = 0
       /\ calls.signs = 0
       /\ gpc \in {"checkAta", "done"}
       /\ gpc = "done" => reply.status >= 400

\* ---- C10 (Spec). The built payment transaction moves exactly the
\* requirement's amount of the requirement's asset to the requirement's payee.
C10_TransferMatchesRequirement ==
    tx # NoTx
    => /\ Len(tx.instructions) = 1
       /\ tx.instructions[1].mint = accept.asset
       /\ tx.instructions[1].destOwner = accept.payTo
       /\ tx.instructions[1].amount = accept.maxAmountRequired

NewResponseHeaders(r) ==
    (IF r.xpr # "none" THEN {"x-payment-response"} ELSE {})
    \cup (IF r.signature # "none" THEN {"x-payment-signature"} ELSE {})

\* ---- C16 (Spec). Replayer frame: the replay has the method, URL and body of
\* the initial request, exactly one more request header, and the answer
\* carries no new header but the settlement-response header.
C16_ReplayerFrame ==
    Len(fetches) = 2
    => /\ fetches[2].url = fetches[1].url
       /\ fetches[2].method = fetches[1].method
       /\ fetches[2].body = fetches[1].body
       /\ fetches[1].headers \subseteq fetches[2].headers
       /\ Cardinality(fetches[2].headers \ fetches[1].headers) = 1
       /\ gpc = "done" => NewResponseHeaders(reply) \subseteq {"x-payment-response"}

\* The request side of the replayer frame alone.
ReplayRequestFrame ==
    Len(fetches) = 2
    => /\ fetches[2].url = fetches[1].url
       /\ fetches[2].method = fetches[1].method
       /\ fetches[2].body = fetches[1].body
       /\ fetches[2].headers = fetches[1].headers \cup {"X-PAYMENT"}

\* ---- C18 (Spec). Mandatory reconciliation before failure: once the
\* gateway's broadcast returned a signature, a failure is answered only after
\* the signature's status was looked up on chain (or the confirmation itself
\* reported the transaction's on-chain error).
C18_ReconcileBeforeFailure ==
    (/\ gpc = "done"
     /\ broadcastSig = "sig"
     /\ calls.replays = 0
     /\ reply.status >= 400
     /\ reply.error # "Transaction failed on-chain")
    => calls.localVerify >= 1

C17_BothRequired ==
    (vpc = "decided" /\ vpolicy.mode = "dual" /\ vpolicy.result.status = 200)
    => /\ vpolicy.fac = "valid"
       /\ SharedLocalVerify(vin.payload, vin.requirement, vin.rpc).isValid
       /\ vpolicy.result.facilitatorCalls = 1
       /\ vpolicy.result.localCalls = 1

\* What the node answered cannot back a payment: the look-up threw, found
\* nothing, found an unconfirmed transaction or one with an error.
NoConfirmedCleanTransaction(rpc) ==
    \/ rpc.status \notin {"confirmed", "finalized"}
    \/ rpc.parsed # "meta"
    \/ rpc.err

\* ---- C20 (SpecVerify). Local verification fails closed: when the
\* transaction is not found, not yet confirmed, has an on-chain error, or the
\* look-up throws, every local verifier returns invalid.
C20_FailsClosed ==
    (vpc = "verified" /\ NoConfirmedCleanTransaction(vin.rpc))
    => /\ ~vout.gateway
       /\ ~vout.shared.isValid
       /\ vout.shared.invalidReason # "none"
       /\ \A recipientIndex \in {-1, 0}, received \in 0..MaxBal :
            ~chatVerifyPayment(vin.rpc, recipientIndex, received,
                               vin.requirement.maxAmountRequired)

\* A confirmed transaction that paid in full but recorded an error.
C20_Witness ==
    /\ vpc = "verified"
    /\ vin.payload = CompletePayload
    /\ vin.rpc.status = "confirmed"
    /\ vin.rpc.parsed = "meta"
    /\ vin.rpc.err
    /\ ~vout.gateway
    /\ vout.shared.invalidReason = "Transaction failed on chain"

\* The submitted transaction's expiry material lapsed: the block-height check
\* refused it, or the broadcast or the confirmation failed with an expiry
\* error.
ExpiryOccurred ==
    \/ sreply.error = "TRANSACTION_EXPIRED"
    \/ (scalls.sends = 1 /\ signature = "undefined" /\ errorMsg = "expiry")
    \/ confirmError = "expiry"

\* ---- C19 (SpecSubmit). Genuine expiry is a distinct status: when the
\* transaction expired before broadcast, or broadcast or confirmation failed
\* with an expiry error and the transaction was not found on chain, the answer
\* is an explicit expired status, not the generic error, and not a success.
C19_ExpiryDistinctStatus ==
    (spc = "done" /\ ExpiryOccurred /\ ~sreply.success)
    => /\ sreply.error \in {"TRANSACTION_EXPIRED", "BLOCKHASH_EXPIRED"}
       /\ sreply.status \in {400, 409}

\* A submit call for the pending transaction made after its time to live.
LateCall(c) ==
    /\ bcall[c].at >= 0
    /\ bcall[c].txId = TxId
    /\ bcall[c].signedTransaction # ""
    /\ pending.status # "absent"
    /\ bcall[c].at - pending.createdAt > transactionTimeout

\* ---- C14 (SpecBridge). Expired interactive session is rejected: a submit
\* call made for a pending transaction after its time to live is answered
\* with the not-found-or-expired or the expired error, never broadcasts, and
\* leaves the entry out of the pending map.
C14_ExpiredRejected ==
    \A c \in Callers :
        LateCall(c)
        => /\ bpc[c] = "done"
           /\ ~breply[c].success
           /\ breply[c].error \in {"Transaction not found or expired",
                                   "Transaction expired"}
           /\ bsends[c] = 0
           /\ ~inMap

\* An entry nobody submitted in time: the late call is refused as expired and
\* nothing was ever broadcast.
C14_Witness ==
    /\ LateCall("c1")
    /\ breply["c1"].error = "Transaction expired"
    /\ pending.status = "pending_signature"
    /\ ~inMap
    /\ \A c \in Callers : bsends[c] = 0

\* The entry can still be submitted.
Submittable == inMap /\ pending.status = "pending_signature"

\* ---- C15 (SpecBridge). A signing session is completed at most once: over
\* all submit calls for the pending transaction at most one broadcast is
\* made, and an entry that has left pending_signature (or the map) is never
\* submittable again.
C15_CompletedAtMostOnce ==
    /\ [](bsends["c1"] + bsends["c2"] <= 1)
    /\ [][(pending.status # "absent" /\ ~Submittable) => ~Submittable']_vars

\* One call broadcast; the other found the entry already taken.
C15_Witness ==
    /\ bsends["c1"] = 1
    /\ bsends["c2"] = 0
    /\ breply["c2"].error = "Transaction already processed"

\* ---- C21 (Spec). Settle follows a valid verify: the facilitator's settle
\* endpoint is called only after its verify endpoint answered 2xx with
\* isValid true in the same request; after any other verify outcome settle is
\* never called.
C21_SettleFollowsValidVerify ==
    /\ (gpc = "facSettle" \/ calls.facSettle > 0)
       => (calls.facVerify = 1 /\ facVerifyAnswer = "valid")
    /\ facVerifyAnswer # "valid" => (calls.facSettle = 0 /\ facSettleAnswer = "none")
    /\ calls.facSettle <= 1

\* The facilitator verified and then settled.
C21_Witness ==
    /\ facVerifyAnswer = "valid"
    /\ calls.facSettle = 1
    /\ facSettleAnswer = "success"

\* ---- C22 (Spec). Account creation is a separate, earlier transaction: the
\* payment transaction never carries the create instruction, a created account
\* was sent and confirmed in a transaction of its own before the payment was
\* built, and when the creation failed no payment transaction is signed.
C22_AccountCreationSeparate ==
    /\ \A i \in 1..Len(tx.instructions) :
           tx.instructions[i].programId # ASSOCIATED_TOKEN_PROGRAM_ID
    /\ (tx # NoTx /\ ata = "created") => calls.ataSends = 1
    /\ ata = "missing" => (tx = NoTx /\ calls.signs = 0)

C26_FreshBlockhash ==
    tx # NoTx =>
        /\ r1.status = 402
        /\ calls.blockhash >= 1
        /\ tx.recentBlockhash = calls.blockhash
        /\ calls.ataSends = 1 => tx.recentBlockhash = 2

\* A payment built after the treasury account was created.
C26_Witness ==
    /\ ata = "created"
    /\ tx.signed
    /\ tx.recentBlockhash = 2

\* ---- C29 (Spec). One payment signature per request: the transaction is
\* signed at most once, the bytes serialized after signing are the bytes of
\* that transaction, the payload given to the facilitator encodes those bytes
\* (or the message they sign), and a local broadcast sends the same bytes,
\* once.
C29_OnePaymentSignature ==
    /\ calls.signs <= 1
    /\ calls.paySends <= 1
    /\ tx.signed => rawTx = serialize(tx)
    /\ payload.transaction # << >> => payload.transaction = Base64(rawTx)
    /\ payload.message # << >> => payload.message = Base64(serializeMessage(tx))
    /\ calls.paySends = 1 => (sentRaw = rawTx /\ rawTx # NoBytes)
    /\ calls.paySends = 0 => sentRaw = NoBytes

\* The facilitator was given the transaction and failed; the gateway then
\* broadcast locally.
C29_Witness ==
    /\ calls.facVerify = 1
    /\ calls.paySends = 1
    /\ payload.transaction = Base64(sentRaw)
    /\ sentRaw = serialize(tx)

\* ---- C27 (SpecLive). No silent failure: when every external call returns or
\* throws, the request reaches its end with a response; the response is sent
\* once and never changed; and a response that is not the upstream's own
\* (pass-through or replay) carries a failure status and the text of the
\* failure. No response is sent before the end.
GatewayFailureTexts ==
    { "gateway error", "No payment requirements in 402 response",
      "Facilitator verification failed in facilitator-only mode",
      "Local verification error", "Transaction failed on-chain",
      "Local chain verification failed" }

ForwardedFromUpstream ==
    \/ r2 # NoResponse /\ reply = ReplayReply(r2, txSignature)
    \/ r1.status # 402 /\ r1 # NoResponse /\ reply = PassThrough(r1)

C28_SuccessOnlyWithoutError ==
    sreply.success =>
        /\ sreply.confirmation.confirmationStatus # "none"
        /\ ~sreply.confirmation.err
        /\ ~chainTx.err

\* ---- C23 (SpecBridge). Cancellation only while awaiting signature: an entry
\* whose submission has started (status broadcasting or confirming) is still
\* in the pending store; nothing removes it before the submission finishes.
C23_NoRemovalOnceSubmitted ==
    pending.status \in {"broadcasting", "confirming"} => inMap

\* ---- C24 (SpecSweep). The sweep bounds abandoned entries: no stored entry is
\* older than the timeout plus one sweep period, and every stored entry whose
\* timeout lapses within the clock of the model is eventually removed, with
\* or without a request touching it.
C24_SweepBoundsAbandoned ==
    /\ [](inMap => now - pending.createdAt <= transactionTimeout + 1)
    /\ (inMap /\ pending.createdAt + transactionTimeout < MaxClock) ~> ~inMap

\* An entry that no request touched after it was stored, removed by the sweep.
C24_Witness ==
    /\ removedBy = "sweep"
    /\ ~inMap
    /\ pending.status = "pending_signature"
    /\ \A c \in Callers : bpc[c] = "idle"
    /\ sessionOpen

\* ---- C30 (SpecHitl). A confirmation request reaches at most one terminal
\* status, whatever the order of approve, reject, the timer and the cleanup:
\* a request is stored exactly while it is PENDING, it is in the history
\* exactly once when it is APPROVED, REJECTED or EXPIRED and not before, its
\* terminal status never changes, and approve or reject of a request that is
\* already terminal fails and leaves requests, store and history as they were.
Occurrences(history, id) ==
    Cardinality({i \in 1..Len(history) : history[i] = id})

C30_OneTerminalStatus ==
    /\ [](\A id \in RequestIds :
            /\ Has(pendingRequests, id) <=> requests[id].status = "PENDING"
            /\ Occurrences(pendingRequests, id) <= 1
            /\ Occurrences(confirmationHistory, id) =
                  (IF requests[id].status \in TerminalStatuses THEN 1 ELSE 0))
    /\ [][\A id \in RequestIds :
             requests[id].status \in TerminalStatuses => requests'[id] = requests[id]]_vars
    /\ [][(/\ hresult' # hresult
           /\ hresult'.op \in {"approve", "reject"}
           /\ requests[hresult'.id].status \in TerminalStatuses)
          => (/\ ~hresult'.success
              /\ UNCHANGED << requests, pendingRequests, confirmationHistory >>)]_vars

\* A request approved after its expiry time had come, whose timer then ran and
\* found nothing, and which a later reject could not change.
C30_Witness ==
    /\ requests["req_1"].status = "APPROVED"
    /\ hnow >= requests["req_1"].expiresAt
    /\ "req_1" \notin timers
    /\ hresult = HResult("reject", "req_1", FALSE, "none",
                         "Request not found or already processed")
    /\ Occurrences(confirmationHistory, "req_1") = 1

====
